---- MODULE Spec2Model ----
(***************************************************************************)
(* State-machine model of the CasperVault VaultManager contract            *)
(* (contracts/src/core/vault_manager.rs) together with the guard modules   *)
(* it embeds (ReentrancyGuard, Pausable, AccessControl), and of the        *)
(* stand-alone RateLimiter module (contracts/src/utils/rate_limiter.rs),   *)
(* which the vault does not call and which has its own specification,      *)
(* LimiterSpec.                                                            *)
(*                                                                         *)
(* Execution model.  The host runs one call at a time and no entry point    *)
(* of the vault calls out of the contract, so every call is one step.       *)
(* env().revert() stops the call and discards every storage write of the    *)
(* transaction, so each entry point is an operator from (storage, caller,   *)
(* argument, block time) to a result [st, err, ret] whose st is the storage *)
(* at entry when err is not "none".                                         *)
(*                                                                         *)
(* Storage cells are named as the impl block names them.  total_assets is  *)
(* the Var written by deposit; total_assets_fn is the method               *)
(* total_assets(), which reads the instant pool only.                      *)
(***************************************************************************)
EXTENDS Integers, Naturals, FiniteSets, Sequences, TLC

VARIABLES vault, now, last, limiter, config_changes

vars == <<vault, now, last, limiter, config_changes>>

(* ------------------------------ bounds --------------------------------- *)

\* Deposits are accepted by the model while the total_assets counter stays
\* within this bound (total_assets only grows, so it caps the run).
MaxAssets == 2000

\* Number of withdrawal requests the model issues.
MaxRequests == 2

\* Number of calls that change the vault's configuration (roles, pause flag,
\* timelock, pool target, deposit limits) in one run of the model.
MaxConfigChanges == 2

\* Block times later than this are not explored.
MaxTime == 792000

\* Scaled stand-ins for the per-transaction (10,000 CSPR) and per-day
\* (50,000 CSPR) limits set by init; the real values exceed TLC's integers.
InitMaxDeposit == 1200

InitMaxDepositPerDay == 1500

\* Scaled stand-ins for the limits RateLimiter::init sets: per transaction
\* (10,000 CSPR), per user and day (50,000 CSPR), and global per hour for
\* deposits (1,000,000 CSPR) and withdrawals (500,000 CSPR).  Two users can
\* together exceed the global deposit limit, so every check can bind.
InitMaxPerTx == 2

InitMaxPerDayPerUser == 3

InitMaxGlobalDepositsPerHour == 4

InitMaxGlobalWithdrawalsPerHour == 3

(* ------------------------- program constants --------------------------- *)

NOT_ENTERED == 1

ENTERED == 2

performance_fee_bps == 1000

management_fee_bps == 200

instant_withdrawal_fee_bps == 50

InitInstantPoolTargetBps == 500

min_shares == 1000

InitWithdrawalTimelock == 604800

time_window == 86400

\* RateLimiter: length of a user's day and of the global hour, in seconds.
limiter_day == 86400

limiter_hour == 3600

seconds_per_year == 31536000

BPS_DENOMINATOR == 10000

FeeCollectionInterval == 3600

MinTimelock == 86400

MaxTimelock == 2592000

\* set_instant_pool_target refuses a target above 50%.
MaxPoolTargetBps == 5000

\* Role numbers of AccessControl (enum Role).
RoleAdmin == 0

RoleOperator == 1

RoleGuardian == 2

RoleKeeper == 3

Roles == {RoleAdmin, RoleOperator, RoleGuardian, RoleKeeper}

(* ------------------------------ inputs --------------------------------- *)

Addr == {"admin", "treasury", "alice", "bob"}

admin == "admin"

treasury == "treasury"

\* Accounts that call the user-facing entry points.
Callers == {"alice", "bob"}

\* Accounts that call the admin-only entry points: the initial admin, an
\* account that is granted and loses the Admin role, and one never granted it.
AdminCallers == {"admin", "alice", "bob"}

\* Role numbers handed to grant_role, revoke_role and renounce_role: Admin,
\* Keeper and a number Role::from_u8 rejects.
RoleArgs == {RoleAdmin, RoleKeeper, RoleKeeper + 1}

\* Accounts a role is granted to or revoked from: any of them for Keeper,
\* the first one only for Admin.
Grantees(role) == IF role = RoleKeeper THEN {"alice", "bob"} ELSE {"alice"}

\* Accounts that call grant_role, revoke_role and renounce_role.
RoleCallers == {"admin", "alice"}

\* Arguments of set_instant_pool_target: a target other than init's and one
\* above the 50% ceiling.
PoolTargetArgs == {4 * InitInstantPoolTargetBps, MaxPoolTargetBps + 1}

\* Arguments <<max_per_tx, max_per_day>> of update_deposit_limits: limits
\* above those set by init.
DepositLimitArgs == {<<2 * InitMaxDeposit, 2 * InitMaxDepositPerDay>>}

\* Attached values tried by deposit: zero, below the dust floor, at the
\* floor, and above the per-transaction cap.
Amounts == {0, min_shares - 1, min_shares, InitMaxDeposit + 1}

\* Block times the environment moves through: the first instant the fee
\* sweep admits (3600), the end of a one-day window or timelock started
\* then (3600 + 86400), and a time late enough for the default timelock to
\* expire and a management fee to accrue.
TimePoints == {0, 3600, 90000, 792000}

TimelockArgs == {MinTimelock - 1, MinTimelock}

\* Share arguments tried by caller c: zero, a partial amount, the whole
\* balance and one more than the balance.
ShareArgs(s, c) == {0, 1000, s.user_shares[c], s.user_shares[c] + 1}

RequestIds == 0..MaxRequests

\* Block times of the RateLimiter calls: the start, the end of the first
\* hour, and one second before and at the end of the first day.
LimiterTimes == {0, limiter_hour, limiter_day - 1, limiter_day}

\* Amounts handed to the RateLimiter: zero up to one above the
\* per-transaction limit.
LimiterAmounts == 0 .. (InitMaxPerTx + 1)

\* Caps handed to set_max_per_tx and to set_max_per_day: a per-transaction
\* limit above init's and a per-day limit below init's.
PerTxCapArgs == {InitMaxPerTx + 1}

PerDayCapArgs == {InitMaxPerDayPerUser - 1}

\* Withdrawal amounts handed to calculate_performance_fee: below, at and
\* above the cost bases the deposits build up.
FeeAmounts == {0, 1, min_shares, min_shares + 1, 2 * min_shares, 3 * min_shares + 5}

\* Balances of the instant pool tried by the properties of the exit paths:
\* empty, part of a deposit, and more than everything deposited.
PoolLevels == {0, min_shares \div 2, 3 * min_shares}

(* ------------------------------ helpers -------------------------------- *)

NoDeposit == [some |-> FALSE, cost_basis |-> 0, total_deposited |-> 0, last_deposit_time |-> 0]

Min(a, b) == IF a <= b THEN a ELSE b

RECURSIVE MulDivQR(_, _, _)
\* <<q, r>> with a * b = q * c + r and 0 <= r < c, computed without forming
\* the product (U512 arithmetic does not overflow where TLC's would).
MulDivQR(a, b, c) ==
    IF b = 0 THEN <<0, 0>>
    ELSE LET h == MulDivQR(a, b \div 2, c)
             q2 == 2 * h[1] + ((2 * h[2]) \div c)
             r2 == (2 * h[2]) % c
             add == IF b % 2 = 1 THEN a ELSE 0
         IN <<q2 + ((r2 + add) \div c), (r2 + add) % c>>

MulDiv(a, b, c) == MulDivQR(a, b, c)[1]

RECURSIVE SumOver(_, _)
SumOver(f, S) ==
    IF S = {} THEN 0
    ELSE LET x == CHOOSE y \in S : TRUE
         IN f[x] + SumOver(f, S \ {x})

Ok(s, r) == [st |-> s, err |-> "none", ret |-> r]

\* env().revert(e): the call stops and the storage is what it was at entry.
Revert(s, e) == [st |-> s, err |-> e, ret |-> 0]

(* --------------------------- guard modules ----------------------------- *)

is_paused(s) == s.paused

is_entered(s) == s.status = ENTERED

enter(s) == [s EXCEPT !.status = ENTERED]

exit(s) == [s EXCEPT !.status = NOT_ENTERED]

\* AccessControl::has_role: the roles mapping, read with unwrap_or(false).
has_role(s, role, account) == account \in s.roles[role]

\* The test made by only_keeper.
has_keeper_role(s, a) == has_role(s, RoleKeeper, a)

\* The test made by only_admin.
has_admin_role(s, a) == has_role(s, RoleAdmin, a)

(* ---------------------------- share ledger ----------------------------- *)

\* Variant of total_assets_fn that reports the total_assets cell written by
\* deposit instead of the instant pool.
total_assets_from_cell(s) == s.total_assets

total_assets_fn(s) == s.instant_withdrawal_pool

\* Variant of convert_to_shares that rounds the quotient up.
convert_to_shares_rounded_up(s, assets) ==
    IF s.total_shares = 0 THEN assets
    ELSE IF total_assets_fn(s) = 0 THEN assets
    ELSE (assets * s.total_shares + total_assets_fn(s) - 1) \div total_assets_fn(s)

convert_to_shares(s, assets) ==
    IF s.total_shares = 0 THEN assets
    ELSE IF total_assets_fn(s) = 0 THEN assets
    ELSE (assets * s.total_shares) \div total_assets_fn(s)

\* Variant of convert_to_assets that prices shares 1:1 when the vault
\* reports no assets, as convert_to_shares does.
convert_to_assets_one_to_one(s, shares) ==
    IF s.total_shares = 0 THEN 0
    ELSE IF total_assets_fn(s) = 0 THEN shares
    ELSE (shares * total_assets_fn(s)) \div s.total_shares


\* floor(shares * total_assets / total_shares); the product is not formed
\* because get_share_price passes 10^9 shares.
convert_to_assets(s, shares) ==
    IF s.total_shares = 0 THEN 0
    ELSE MulDiv(shares, total_assets_fn(s), s.total_shares)

get_user_shares(s, a) == s.user_shares[a]

\* One share with 9 decimals.
one_share == 1000000000

get_share_price(s) == convert_to_assets(s, one_share)

(* ----------------------------- fee engine ------------------------------ *)

\* Variant of calculate_performance_fee that, once the withdrawal is in
\* profit, takes the fee from the whole amount and not from the profit.
calculate_performance_fee_flat(s, user, withdrawal_amount) ==
    LET data == s.user_deposits[user]
        fee == (withdrawal_amount * performance_fee_bps) \div BPS_DENOMINATOR
    IN IF data.some /\ withdrawal_amount <= data.cost_basis
       THEN [st |-> s, fee |-> 0]
       ELSE [st |-> [s EXCEPT !.fees_collected = @ + fee], fee |-> fee]

\* Variant of calculate_performance_fee that charges the fee on the whole
\* withdrawal whatever the stored cost basis.
calculate_performance_fee_on_gross(s, user, withdrawal_amount) ==
    LET fee == (withdrawal_amount * performance_fee_bps) \div BPS_DENOMINATOR
    IN [st |-> [s EXCEPT !.fees_collected = @ + fee], fee |-> fee]

\* Result [st, fee]: the Some branch with no profit returns 0 and writes
\* nothing; the other branches add the fee to fees_collected.
calculate_performance_fee(s, user, withdrawal_amount) ==
    LET data == s.user_deposits[user] IN
    IF data.some
    THEN IF withdrawal_amount <= data.cost_basis
         THEN [st |-> s, fee |-> 0]
         ELSE LET profit == withdrawal_amount - data.cost_basis
                  fee == (profit * performance_fee_bps) \div BPS_DENOMINATOR
              IN [st |-> [s EXCEPT !.fees_collected = @ + fee], fee |-> fee]
    ELSE LET fee == (withdrawal_amount * performance_fee_bps) \div BPS_DENOMINATOR
         IN [st |-> [s EXCEPT !.fees_collected = @ + fee], fee |-> fee]

\* Variant of management_fee_shares that rounds the fee up.
management_fee_shares_rounded_up(total_shares, time_elapsed) ==
    (MulDiv(total_shares * management_fee_bps, time_elapsed, seconds_per_year)
        + BPS_DENOMINATOR - 1) \div BPS_DENOMINATOR

\* ((total_shares * fee_bps * time_elapsed) / seconds_per_year) / 10000,
\* lines 710-718.
management_fee_shares(total_shares, time_elapsed) ==
    MulDiv(total_shares * management_fee_bps, time_elapsed, seconds_per_year)
        \div BPS_DENOMINATOR

\* Variant of collect_management_fees without the one-hour rate limit.
collect_management_fees_unlimited(s, caller, t) ==
    IF ~has_keeper_role(s, caller) THEN Revert(s, "MissingRole")
    ELSE LET time_elapsed == t - s.last_management_fee_collection
             fee_shares == management_fee_shares(s.total_shares, time_elapsed)
         IN IF fee_shares = 0 THEN Ok(s, 0)
            ELSE Ok([s EXCEPT !.total_shares = @ + fee_shares,
                              !.last_management_fee_collection = t,
                              !.user_shares[treasury] = @ + fee_shares],
                    fee_shares)

\* collect_management_fees takes no latch; a revert inside it aborts the
\* transaction that called it.
collect_management_fees(s, caller, t) ==
    IF ~has_keeper_role(s, caller) THEN Revert(s, "MissingRole")
    ELSE IF t < s.last_management_fee_collection + FeeCollectionInterval
    THEN Revert(s, "RateLimitExceeded")
    ELSE LET time_elapsed == t - s.last_management_fee_collection
             fee_shares == management_fee_shares(s.total_shares, time_elapsed)
         IN IF fee_shares = 0 THEN Ok(s, 0)
            ELSE Ok([s EXCEPT !.total_shares = @ + fee_shares,
                              !.last_management_fee_collection = t,
                              !.user_shares[treasury] = @ + fee_shares],
                    fee_shares)

(* --------------------------- deposit helpers --------------------------- *)

calculate_strategy_deployment(s, deposit_amount) ==
    LET target_pool_size ==
            (total_assets_fn(s) * s.instant_pool_target_bps) \div BPS_DENOMINATOR
        current_pool == s.instant_withdrawal_pool
    IN IF current_pool >= target_pool_size THEN deposit_amount
       ELSE LET pool_deficit == target_pool_size - current_pool
            IN IF deposit_amount <= pool_deficit THEN 0
               ELSE deposit_amount - pool_deficit

\* Result [st, ok]; the counter is not written when the limit is exceeded.
check_daily_deposit_limit(s, user, amount, t) ==
    LET data == s.user_deposits[user] IN
    IF data.some
    THEN IF t > data.last_deposit_time + time_window
         THEN [st |-> [s EXCEPT !.daily_deposits[user] = amount], ok |-> TRUE]
         ELSE LET new_daily == s.daily_deposits[user] + amount
              IN IF new_daily > s.max_deposit_per_day
                 THEN [st |-> s, ok |-> FALSE]
                 ELSE [st |-> [s EXCEPT !.daily_deposits[user] = new_daily],
                       ok |-> TRUE]
    ELSE [st |-> [s EXCEPT !.daily_deposits[user] = amount], ok |-> TRUE]

\* Variant of update_user_deposit_tracking that replaces the cost basis by
\* the amount of the latest deposit.
update_user_deposit_tracking_replacing(s, user, amount, t) ==
    LET d == s.user_deposits[user] IN
    [s EXCEPT !.user_deposits[user] =
        [some |-> TRUE,
         cost_basis |-> amount,
         total_deposited |-> d.total_deposited + amount,
         last_deposit_time |-> t]]

update_user_deposit_tracking(s, user, amount, t) ==
    LET d == s.user_deposits[user] IN
    [s EXCEPT !.user_deposits[user] =
        [some |-> TRUE,
         cost_basis |-> d.cost_basis + amount,
         total_deposited |-> d.total_deposited + amount,
         last_deposit_time |-> t]]

max_deposit_fn(s, user, t) ==
    LET data == s.user_deposits[user] IN
    IF data.some
    THEN IF t > data.last_deposit_time + time_window
         THEN s.max_deposit_per_day
         ELSE IF s.max_deposit_per_day >= s.daily_deposits[user]
              THEN s.max_deposit_per_day - s.daily_deposits[user]
              ELSE 0
    ELSE s.max_deposit_per_day

(* ------------------------------ deposit -------------------------------- *)

\* deposit() from entry to the computation of the strategy share (lines
\* 200-253): result [st, err, ret, deploy] where st is the storage written
\* so far, ret the shares minted and deploy the amount set aside for
\* strategies (the block that would hand it over is empty).  The boolean
\* returned by check_daily_deposit_limit is dropped by the caller.
deposit_to_deploy(s, caller, amount, t) ==
    IF is_paused(s) THEN Revert(s, "Paused") @@ [deploy |-> 0]
    ELSE IF is_entered(s) THEN Revert(s, "ReentrancyGuard") @@ [deploy |-> 0]
    ELSE IF amount = 0 THEN Revert(s, "ZeroAmount") @@ [deploy |-> 0]
    ELSE IF amount > s.max_deposit THEN Revert(s, "RateLimitExceeded") @@ [deploy |-> 0]
    ELSE
      LET s1 == enter(s)
          s2 == check_daily_deposit_limit(s1, caller, amount, t).st
          fees == collect_management_fees(s2, caller, t)
      IN IF fees.err # "none" THEN Revert(s, fees.err) @@ [deploy |-> 0]
         ELSE
           LET s3 == fees.st
               lst_cspr_received == amount
               shares_to_mint == convert_to_shares(s3, lst_cspr_received)
           IN IF shares_to_mint < min_shares
              THEN Revert(s, "InsufficientBalance") @@ [deploy |-> 0]
              ELSE
                LET s4 == [s3 EXCEPT
                             !.total_assets = @ + lst_cspr_received,
                             !.total_shares = @ + shares_to_mint,
                             !.user_shares[caller] = @ + shares_to_mint]
                    s5 == update_user_deposit_tracking(s4, caller, amount, t)
                IN Ok(s5, shares_to_mint)
                     @@ [deploy |-> calculate_strategy_deployment(s5, lst_cspr_received)]

\* The rest of deposit() (lines 255-271): pool top-up and latch release.
deposit_finish(s, amount, deploy) ==
    LET pool_amount == amount - deploy
        s1 == IF pool_amount > 0
              THEN [s EXCEPT !.instant_withdrawal_pool = @ + pool_amount]
              ELSE s
    IN exit(s1)

\* Variant of deposit whose error paths that revert without calling exit
\* leave the latch as enter set it.
deposit_holding_latch_on_error(s, caller, amount, t) ==
    LET r == deposit_to_deploy(s, caller, amount, t)
    IN IF r.err \in {"Paused", "ReentrancyGuard"} THEN Revert(s, r.err)
       ELSE IF r.err # "none" THEN Revert(enter(s), r.err)
       ELSE Ok(deposit_finish(r.st, amount, r.deploy), r.ret)

\* Variant of deposit in which a revert after the daily-limit step leaves
\* the latch and the daily counter as written so far.
deposit_keeping_writes(s, caller, amount, t) ==
    LET r == deposit_to_deploy(s, caller, amount, t)
    IN IF r.err \in {"MissingRole", "InsufficientBalance"}
       THEN Revert(check_daily_deposit_limit(enter(s), caller, amount, t).st, r.err)
       ELSE IF r.err # "none" THEN Revert(s, r.err)
       ELSE Ok(deposit_finish(r.st, amount, r.deploy), r.ret)


deposit(s, caller, amount, t) ==
    LET r == deposit_to_deploy(s, caller, amount, t)
    IN IF r.err # "none" THEN Revert(s, r.err)
       ELSE Ok(deposit_finish(r.st, amount, r.deploy), r.ret)

(* ------------------------------ withdraw ------------------------------- *)

\* Variant of burn_user_shares that leaves the caller's balance as it was.
burn_user_shares_keeping_balance(s, caller, user_shares, shares) ==
    IF user_shares - shares = 0
    THEN [s EXCEPT !.user_deposits[caller] = NoDeposit]
    ELSE s

\* Burn of the caller's shares shared by withdraw and instant_withdraw:
\* a balance that reaches zero removes the share entry and the UserDeposit.
burn_user_shares(s, caller, user_shares, shares) ==
    LET new_user_shares == user_shares - shares
    IN IF new_user_shares = 0
       THEN [s EXCEPT !.user_shares[caller] = 0,
                      !.user_deposits[caller] = NoDeposit]
       ELSE [s EXCEPT !.user_shares[caller] = new_user_shares]

withdraw(s, caller, shares, t) ==
    IF is_paused(s) THEN Revert(s, "Paused")
    ELSE IF is_entered(s) THEN Revert(s, "ReentrancyGuard")
    ELSE
      LET s1 == enter(s)
          user_shares == s1.user_shares[caller]
      IN IF shares > user_shares \/ shares = 0
         THEN Revert(s, "InsufficientBalance")
         ELSE
           LET total_assets_value == convert_to_assets(s1, shares)
               instant_pool == s1.instant_withdrawal_pool
               s2 == IF total_assets_value <= instant_pool
                     THEN [s1 EXCEPT !.instant_withdrawal_pool =
                                         instant_pool - total_assets_value]
                     ELSE [s1 EXCEPT !.instant_withdrawal_pool = 0]
               pf == calculate_performance_fee(s2, caller, total_assets_value)
               assets_after_fee == total_assets_value - pf.fee
               s3 == burn_user_shares(pf.st, caller, user_shares, shares)
           IN IF s3.total_shares < shares THEN Revert(s, "Panic")
              ELSE Ok(exit([s3 EXCEPT !.total_shares = @ - shares]),
                      assets_after_fee)

(* ------------------------ time-locked withdrawal ----------------------- *)

\* Variant of new_withdrawal_request that snapshots the shares at par.
new_withdrawal_request_at_par(s, caller, shares, t) ==
    [user |-> caller,
     shares |-> shares,
     assets_value |-> shares,
     request_time |-> t,
     unlock_time |-> t + s.withdrawal_timelock,
     completed |-> FALSE]

\* Variant of new_withdrawal_request that forgets the timelock.
new_withdrawal_request_unlocked(s, caller, shares, t) ==
    [user |-> caller,
     shares |-> shares,
     assets_value |-> convert_to_assets(s, shares),
     request_time |-> t,
     unlock_time |-> t,
     completed |-> FALSE]

\* The record request_withdrawal stores (lines 372-385).
new_withdrawal_request(s, caller, shares, t) ==
    [user |-> caller,
     shares |-> shares,
     assets_value |-> convert_to_assets(s, shares),
     request_time |-> t,
     unlock_time |-> t + s.withdrawal_timelock,
     completed |-> FALSE]

\* Variant of lock_user_shares that burns the shares at request time.
lock_user_shares_burning(s, caller, user_shares, shares) ==
    [s EXCEPT !.user_shares[caller] = user_shares - shares,
              !.total_shares = @ - shares]

\* Variant of lock_user_shares that leaves the requested shares spendable.
lock_user_shares_keeping_balance(s, caller, user_shares, shares) == s

\* Locking (lines 390-393): the shares leave the caller's balance and stay
\* in total_shares; the UserDeposit is kept even if the balance is now zero.
lock_user_shares(s, caller, user_shares, shares) ==
    [s EXCEPT !.user_shares[caller] = user_shares - shares]

\* Variant of request_withdrawal that never advances next_withdrawal_id.
request_withdrawal_reusing_id(s, caller, shares, t) ==
    IF is_paused(s) THEN Revert(s, "Paused")
    ELSE IF is_entered(s) THEN Revert(s, "ReentrancyGuard")
    ELSE
      LET s1 == enter(s)
          user_shares == s1.user_shares[caller]
      IN IF shares > user_shares \/ shares = 0
         THEN Revert(s, "InsufficientBalance")
         ELSE
           LET request_id == s1.next_withdrawal_id
               request == new_withdrawal_request(s1, caller, shares, t)
               s2 == [s1 EXCEPT
                        !.withdrawal_requests = (request_id :> request) @@ @]
               s3 == lock_user_shares(s2, caller, user_shares, shares)
           IN Ok(exit(s3), request_id)

request_withdrawal(s, caller, shares, t) ==
    IF is_paused(s) THEN Revert(s, "Paused")
    ELSE IF is_entered(s) THEN Revert(s, "ReentrancyGuard")
    ELSE
      LET s1 == enter(s)
          user_shares == s1.user_shares[caller]
      IN IF shares > user_shares \/ shares = 0
         THEN Revert(s, "InsufficientBalance")
         ELSE
           LET request_id == s1.next_withdrawal_id
               request == new_withdrawal_request(s1, caller, shares, t)
               s2 == [s1 EXCEPT
                        !.withdrawal_requests = (request_id :> request) @@ @,
                        !.next_withdrawal_id = request_id + 1]
               s3 == lock_user_shares(s2, caller, user_shares, shares)
           IN Ok(exit(s3), request_id)

\* Variant of validate_request without the owner check.
validate_request_ignoring_owner(request, caller, t) ==
    IF request.completed THEN "InvalidRequest"
    ELSE IF t < request.unlock_time THEN "TimelockActive"
    ELSE "none"

\* Variant of validate_request without the completed check.
validate_request_ignoring_completed(request, caller, t) ==
    IF request.user # caller THEN "Unauthorized"
    ELSE IF t < request.unlock_time THEN "TimelockActive"
    ELSE "none"

\* The checks complete_withdrawal makes on the request it found
\* (lines 422-436), in the code's order; "none" when all pass.
validate_request(request, caller, t) ==
    IF request.user # caller THEN "Unauthorized"
    ELSE IF request.completed THEN "InvalidRequest"
    ELSE IF t < request.unlock_time THEN "TimelockActive"
    ELSE "none"

\* Variant of settle_request that pays the share count instead of the
\* snapshotted asset value.
settle_request_paying_shares(s, caller, request_id) ==
    LET request == s.withdrawal_requests[request_id]
        s2 == [s EXCEPT !.withdrawal_requests[request_id].completed = TRUE]
        pf == calculate_performance_fee(s2, caller, request.assets_value)
    IN [st |-> pf.st, ret |-> request.shares - pf.fee]

\* Variant of settle_request that computes the performance fee on the
\* request's share count instead of its snapshotted asset value.
settle_request_fee_on_shares(s, caller, request_id) ==
    LET request == s.withdrawal_requests[request_id]
        s2 == [s EXCEPT !.withdrawal_requests[request_id].completed = TRUE]
        instant_pool == s2.instant_withdrawal_pool
        s3 == IF request.assets_value > instant_pool
              THEN [s2 EXCEPT !.instant_withdrawal_pool = 0]
              ELSE [s2 EXCEPT !.instant_withdrawal_pool =
                                  instant_pool - request.assets_value]
        pf == calculate_performance_fee(s3, caller, request.shares)
    IN [st |-> pf.st, ret |-> request.assets_value - pf.fee]

\* Settlement (lines 438-459): result [st, ret] with ret the amount paid.
settle_request(s, caller, request_id) ==
    LET request == s.withdrawal_requests[request_id]
        s2 == [s EXCEPT !.withdrawal_requests[request_id].completed = TRUE]
        instant_pool == s2.instant_withdrawal_pool
        s3 == IF request.assets_value > instant_pool
              THEN [s2 EXCEPT !.instant_withdrawal_pool = 0]
              ELSE [s2 EXCEPT !.instant_withdrawal_pool =
                                  instant_pool - request.assets_value]
        pf == calculate_performance_fee(s3, caller, request.assets_value)
    IN [st |-> pf.st, ret |-> request.assets_value - pf.fee]

\* Variant of complete_withdrawal that refuses a request the instant pool
\* cannot cover.
complete_withdrawal_needing_liquidity(s, caller, request_id, t) ==
    IF is_paused(s) THEN Revert(s, "Paused")
    ELSE IF is_entered(s) THEN Revert(s, "ReentrancyGuard")
    ELSE IF request_id \notin DOMAIN s.withdrawal_requests
    THEN Revert(s, "InvalidRequest")
    ELSE
      LET s1 == enter(s)
          request == s1.withdrawal_requests[request_id]
          verdict == validate_request(request, caller, t)
      IN IF verdict # "none" THEN Revert(s, verdict)
         ELSE IF request.assets_value > s1.instant_withdrawal_pool
         THEN Revert(s, "InsufficientLiquidity")
         ELSE
           LET paid == settle_request(s1, caller, request_id)
           IN IF paid.st.total_shares < request.shares THEN Revert(s, "Panic")
              ELSE Ok(exit([paid.st EXCEPT !.total_shares = @ - request.shares]),
                      paid.ret)

complete_withdrawal(s, caller, request_id, t) ==
    IF is_paused(s) THEN Revert(s, "Paused")
    ELSE IF is_entered(s) THEN Revert(s, "ReentrancyGuard")
    ELSE IF request_id \notin DOMAIN s.withdrawal_requests
    THEN Revert(s, "InvalidRequest")
    ELSE
      LET s1 == enter(s)
          request == s1.withdrawal_requests[request_id]
          verdict == validate_request(request, caller, t)
      IN IF verdict # "none" THEN Revert(s, verdict)
         ELSE
           LET paid == settle_request(s1, caller, request_id)
           IN IF paid.st.total_shares < request.shares THEN Revert(s, "Panic")
              ELSE Ok(exit([paid.st EXCEPT !.total_shares = @ - request.shares]),
                      paid.ret)

(* --------------------------- instant withdraw -------------------------- *)

\* Variant of instant_withdraw that pays without taking the assets out of
\* the instant pool.
instant_withdraw_keeping_pool(s, caller, shares, t) ==
    IF is_paused(s) THEN Revert(s, "Paused")
    ELSE IF is_entered(s) THEN Revert(s, "ReentrancyGuard")
    ELSE
      LET s1 == enter(s)
          user_shares == s1.user_shares[caller]
      IN IF shares > user_shares \/ shares = 0
         THEN Revert(s, "InsufficientBalance")
         ELSE
           LET assets_value == convert_to_assets(s1, shares)
               instant_fee ==
                   (assets_value * instant_withdrawal_fee_bps) \div BPS_DENOMINATOR
               pf == calculate_performance_fee(s1, caller, assets_value)
               total_fees == instant_fee + pf.fee
               s2 == [pf.st EXCEPT !.fees_collected = @ + total_fees]
               s3 == burn_user_shares(s2, caller, user_shares, shares)
           IN IF assets_value > s1.instant_withdrawal_pool
              THEN Revert(s, "InsufficientLiquidity")
              ELSE Ok(exit([s3 EXCEPT !.total_shares = @ - shares]),
                      assets_value - total_fees)

\* Variant of instant_withdraw that adds the shares burned, instead of the
\* fees deducted, to fees_collected.
instant_withdraw_counting_shares(s, caller, shares, t) ==
    IF is_paused(s) THEN Revert(s, "Paused")
    ELSE IF is_entered(s) THEN Revert(s, "ReentrancyGuard")
    ELSE
      LET s1 == enter(s)
          user_shares == s1.user_shares[caller]
      IN IF shares > user_shares \/ shares = 0
         THEN Revert(s, "InsufficientBalance")
         ELSE
           LET assets_value == convert_to_assets(s1, shares)
               instant_pool == s1.instant_withdrawal_pool
           IN IF assets_value > instant_pool
              THEN Revert(s, "InsufficientLiquidity")
              ELSE
                LET instant_fee ==
                        (assets_value * instant_withdrawal_fee_bps) \div BPS_DENOMINATOR
                    pf == calculate_performance_fee(s1, caller, assets_value)
                    total_fees == instant_fee + pf.fee
                    assets_after_fee == assets_value - total_fees
                    s2 == [pf.st EXCEPT
                             !.instant_withdrawal_pool = instant_pool - assets_value,
                             !.fees_collected = @ + shares]
                    s3 == burn_user_shares(s2, caller, user_shares, shares)
                IN IF s3.total_shares < shares THEN Revert(s, "Panic")
                   ELSE Ok(exit([s3 EXCEPT !.total_shares = @ - shares]),
                           assets_after_fee)

instant_withdraw(s, caller, shares, t) ==
    IF is_paused(s) THEN Revert(s, "Paused")
    ELSE IF is_entered(s) THEN Revert(s, "ReentrancyGuard")
    ELSE
      LET s1 == enter(s)
          user_shares == s1.user_shares[caller]
      IN IF shares > user_shares \/ shares = 0
         THEN Revert(s, "InsufficientBalance")
         ELSE
           LET assets_value == convert_to_assets(s1, shares)
               instant_pool == s1.instant_withdrawal_pool
           IN IF assets_value > instant_pool
              THEN Revert(s, "InsufficientLiquidity")
              ELSE
                LET instant_fee ==
                        (assets_value * instant_withdrawal_fee_bps) \div BPS_DENOMINATOR
                    pf == calculate_performance_fee(s1, caller, assets_value)
                    total_fees == instant_fee + pf.fee
                    assets_after_fee == assets_value - total_fees
                    s2 == [pf.st EXCEPT
                             !.instant_withdrawal_pool = instant_pool - assets_value,
                             !.fees_collected = @ + total_fees]
                    s3 == burn_user_shares(s2, caller, user_shares, shares)
                IN IF s3.total_shares < shares THEN Revert(s, "Panic")
                   ELSE Ok(exit([s3 EXCEPT !.total_shares = @ - shares]),
                           assets_after_fee)

(* ------------------- admin, roles and pause operations ----------------- *)

set_withdrawal_timelock(s, caller, timelock) ==
    IF ~has_admin_role(s, caller) THEN Revert(s, "MissingRole")
    ELSE IF timelock < MinTimelock \/ timelock > MaxTimelock
    THEN Revert(s, "Unauthorized")
    ELSE Ok([s EXCEPT !.withdrawal_timelock = timelock], 0)

set_instant_pool_target(s, caller, target_bps) ==
    IF ~has_admin_role(s, caller) THEN Revert(s, "MissingRole")
    ELSE IF target_bps > MaxPoolTargetBps THEN Revert(s, "Unauthorized")
    ELSE Ok([s EXCEPT !.instant_pool_target_bps = target_bps], 0)

\* Line 854 writes the cell max_deposit_per_tx; the per-transaction limit
\* deposit reads is the cell max_deposit, which stays as init set it.
update_deposit_limits(s, caller, max_per_tx, max_per_day) ==
    IF ~has_admin_role(s, caller) THEN Revert(s, "MissingRole")
    ELSE Ok([s EXCEPT !.max_deposit_per_tx = max_per_tx,
                      !.max_deposit_per_day = max_per_day], 0)

\* AccessControl::grant_role: granting a role already held writes nothing.
grant_role(s, caller, role, account) ==
    IF ~has_admin_role(s, caller) THEN Revert(s, "MissingRole")
    ELSE IF role \notin Roles THEN Revert(s, "InvalidRole")
    ELSE IF has_role(s, role, account) THEN Ok(s, 0)
    ELSE Ok([s EXCEPT !.roles[role] = @ \cup {account},
                      !.admin_count = IF role = RoleAdmin THEN @ + 1 ELSE @], 0)

\* Removal of a role shared by revoke_role (lines 95-116) and renounce_role
\* (lines 127-147): the last-admin check is made on the count alone, before
\* looking at whether the account holds the role.
remove_role(s, role, account) ==
    IF role = RoleAdmin /\ s.admin_count <= 1
    THEN Revert(s, "CannotRenounceLastAdmin")
    ELSE IF ~has_role(s, role, account) THEN Ok(s, 0)
    ELSE Ok([s EXCEPT !.roles[role] = @ \ {account},
                      !.admin_count = IF role = RoleAdmin THEN @ - 1 ELSE @], 0)

revoke_role(s, caller, role, account) ==
    IF ~has_admin_role(s, caller) THEN Revert(s, "MissingRole")
    ELSE IF role \notin Roles THEN Revert(s, "InvalidRole")
    ELSE remove_role(s, role, account)

renounce_role(s, caller, role) ==
    IF role \notin Roles THEN Revert(s, "InvalidRole")
    ELSE remove_role(s, role, caller)

pause(s) ==
    IF is_paused(s) THEN Revert(s, "Paused")
    ELSE Ok([s EXCEPT !.paused = TRUE], 0)

unpause(s) ==
    IF ~is_paused(s) THEN Revert(s, "NotPaused")
    ELSE Ok([s EXCEPT !.paused = FALSE], 0)

(* ------------------------------ RateLimiter ---------------------------- *)

\* The checks return Result<(), VaultError>: an Err is a value handed to the
\* caller, not a revert, so what the call wrote before returning it stays
\* written.  Result [st, err, ret].
Err(s, e) == [st |-> s, err |-> e, ret |-> 0]

\* per_user_limits has no entry for the user.
NoRateLimit == [some |-> FALSE, max_per_tx |-> 0, max_per_day |-> 0,
                current_day_total |-> 0, last_reset |-> 0]

InitLimiter(t) ==
    [per_user_limits |-> [u \in Callers |-> NoRateLimit],
     max_per_tx |-> InitMaxPerTx,
     max_per_day_per_user |-> InitMaxPerDayPerUser,
     max_global_deposits_per_hour |-> InitMaxGlobalDepositsPerHour,
     max_global_withdrawals_per_hour |-> InitMaxGlobalWithdrawalsPerHour,
     global_hourly_deposits |-> 0,
     global_hourly_withdrawals |-> 0,
     last_hourly_reset |-> t]

reset_if_needed(l, t) ==
    IF t >= l.last_hourly_reset + limiter_hour
    THEN [l EXCEPT !.global_hourly_deposits = 0,
                   !.global_hourly_withdrawals = 0,
                   !.last_hourly_reset = t]
    ELSE l

\* The user's stored RateLimit, or the default built at lines 47-52.
user_limit_or_default(l, user, t) ==
    IF l.per_user_limits[user].some THEN l.per_user_limits[user]
    ELSE [some |-> TRUE,
          max_per_tx |-> l.max_per_tx,
          max_per_day |-> l.max_per_day_per_user,
          current_day_total |-> 0,
          last_reset |-> t]

\* Lines 54-57: a day after last_reset the user's total starts again.
day_reset(user_limit, t) ==
    IF t >= user_limit.last_reset + limiter_day
    THEN [user_limit EXCEPT !.current_day_total = 0, !.last_reset = t]
    ELSE user_limit

\* Variant of check_deposit_limit without the global hourly check.
check_deposit_limit_without_global_cap(l, user, amount, t) ==
    IF amount > l.max_per_tx THEN Err(l, "RateLimitExceeded")
    ELSE
      LET l1 == reset_if_needed(l, t)
          user_limit == day_reset(user_limit_or_default(l1, user, t), t)
          new_total == user_limit.current_day_total + amount
          global_deposits == l1.global_hourly_deposits
      IN IF new_total > user_limit.max_per_day THEN Err(l1, "RateLimitExceeded")
         ELSE Ok([l1 EXCEPT
                    !.per_user_limits[user] =
                        [user_limit EXCEPT !.current_day_total = new_total],
                    !.global_hourly_deposits = global_deposits + amount],
                 0)

check_deposit_limit(l, user, amount, t) ==
    IF amount > l.max_per_tx THEN Err(l, "RateLimitExceeded")
    ELSE
      LET l1 == reset_if_needed(l, t)
          user_limit == day_reset(user_limit_or_default(l1, user, t), t)
          new_total == user_limit.current_day_total + amount
          global_deposits == l1.global_hourly_deposits
      IN IF new_total > user_limit.max_per_day THEN Err(l1, "RateLimitExceeded")
         ELSE IF global_deposits + amount > l1.max_global_deposits_per_hour
         THEN Err(l1, "RateLimitExceeded")
         ELSE Ok([l1 EXCEPT
                    !.per_user_limits[user] =
                        [user_limit EXCEPT !.current_day_total = new_total],
                    !.global_hourly_deposits = global_deposits + amount],
                 0)

check_withdrawal_limit(l, amount, t) ==
    LET l1 == reset_if_needed(l, t)
        global_withdrawals == l1.global_hourly_withdrawals
    IN IF global_withdrawals + amount > l1.max_global_withdrawals_per_hour
       THEN Err(l1, "RateLimitExceeded")
       ELSE Ok([l1 EXCEPT !.global_hourly_withdrawals = global_withdrawals + amount], 0)

\* The setters take any caller; stored per-user limits keep the caps they
\* were created with.
set_max_per_tx(l, amount) == Ok([l EXCEPT !.max_per_tx = amount], 0)

set_max_per_day(l, amount) == Ok([l EXCEPT !.max_per_day_per_user = amount], 0)

(* ------------------------------ state machine -------------------------- *)

\* Storage after init() at block time 0: the admin holds the Admin role and
\* no other role is granted.  init does not write max_deposit_per_tx.
InitVault ==
    [paused |-> FALSE,
     status |-> NOT_ENTERED,
     roles |-> [r \in Roles |-> IF r = RoleAdmin THEN {admin} ELSE {}],
     admin_count |-> 1,
     total_assets |-> 0,
     total_shares |-> 0,
     user_shares |-> [a \in Addr |-> 0],
     user_deposits |-> [a \in Addr |-> NoDeposit],
     withdrawal_requests |-> <<>>,
     next_withdrawal_id |-> 0,
     withdrawal_timelock |-> InitWithdrawalTimelock,
     instant_withdrawal_pool |-> 0,
     instant_pool_target_bps |-> InitInstantPoolTargetBps,
     fees_collected |-> 0,
     last_management_fee_collection |-> 0,
     max_deposit |-> InitMaxDeposit,
     max_deposit_per_tx |-> 0,
     max_deposit_per_day |-> InitMaxDepositPerDay,
     daily_deposits |-> [a \in Addr |-> 0]]

\* Record of the call the last step made: entry point, request id (for
\* complete_withdrawal; 0 otherwise), error ("none" on success) and value
\* returned.
Call(op, arg, r) ==
    [op |-> op, arg |-> arg, err |-> r.err, ret |-> r.ret]

Init ==
    /\ vault = InitVault
    /\ now = 0
    /\ last = Call("init", 0, Ok(InitVault, 0))
    /\ limiter = InitLimiter(0)
    /\ config_changes = 0

\* One call of an entry point of the vault: a transaction of its own.
TopLevel(op, arg, r) ==
    /\ vault' = r.st
    /\ last' = Call(op, arg, r)
    /\ UNCHANGED <<now, limiter, config_changes>>

\* One call of an entry point that writes the configuration only; the model
\* follows a run until MaxConfigChanges such calls have changed the storage.
ConfigCall(op, r) ==
    /\ config_changes < MaxConfigChanges
    /\ vault' = r.st
    /\ last' = Call(op, 0, r)
    /\ config_changes' = IF r.st = vault THEN config_changes ELSE config_changes + 1
    /\ UNCHANGED <<now, limiter>>

Deposit(c, a) ==
    /\ vault.total_assets + a <= MaxAssets
    /\ TopLevel("deposit", 0, deposit(vault, c, a, now))

Withdraw(c, sh) ==
    TopLevel("withdraw", 0, withdraw(vault, c, sh, now))

RequestWithdrawal(c, sh) ==
    /\ vault.next_withdrawal_id < MaxRequests
    /\ TopLevel("request_withdrawal", 0, request_withdrawal(vault, c, sh, now))

CompleteWithdrawal(c, id) ==
    TopLevel("complete_withdrawal", id, complete_withdrawal(vault, c, id, now))

InstantWithdraw(c, sh) ==
    TopLevel("instant_withdraw", 0, instant_withdraw(vault, c, sh, now))

CollectManagementFees(c) ==
    TopLevel("collect_management_fees", 0, collect_management_fees(vault, c, now))

SetWithdrawalTimelock(c, tl) ==
    ConfigCall("set_withdrawal_timelock", set_withdrawal_timelock(vault, c, tl))

SetInstantPoolTarget(c, bps) ==
    ConfigCall("set_instant_pool_target", set_instant_pool_target(vault, c, bps))

UpdateDepositLimits(c, max_per_tx, max_per_day) ==
    ConfigCall("update_deposit_limits",
               update_deposit_limits(vault, c, max_per_tx, max_per_day))

GrantRole(c, role, a) ==
    ConfigCall("grant_role", grant_role(vault, c, role, a))

RevokeRole(c, role, a) ==
    ConfigCall("revoke_role", revoke_role(vault, c, role, a))

RenounceRole(c, role) ==
    ConfigCall("renounce_role", renounce_role(vault, c, role))

Pause ==
    ConfigCall("pause", pause(vault))

Unpause ==
    ConfigCall("unpause", unpause(vault))

\* The block time moves forward between transactions.
Tick ==
    /\ \E t \in TimePoints :
         /\ t > now
         /\ t <= MaxTime
         /\ now' = t
    /\ last' = Call("tick", 0, Ok(vault, 0))
    /\ UNCHANGED <<vault, limiter, config_changes>>

Next ==
    \/ \E c \in Callers, a \in Amounts : Deposit(c, a)
    \/ \E c \in Callers : \E sh \in ShareArgs(vault, c) : Withdraw(c, sh)
    \/ \E c \in Callers : \E sh \in ShareArgs(vault, c) : RequestWithdrawal(c, sh)
    \/ \E c \in Callers, id \in RequestIds : CompleteWithdrawal(c, id)
    \/ \E c \in Callers : \E sh \in ShareArgs(vault, c) : InstantWithdraw(c, sh)
    \/ \E c \in Callers : CollectManagementFees(c)
    \/ \E c \in AdminCallers, tl \in TimelockArgs : SetWithdrawalTimelock(c, tl)
    \/ \E c \in AdminCallers, bps \in PoolTargetArgs : SetInstantPoolTarget(c, bps)
    \/ \E c \in AdminCallers, l \in DepositLimitArgs : UpdateDepositLimits(c, l[1], l[2])
    \/ \E c \in RoleCallers, role \in RoleArgs :
         \E a \in Grantees(role) : GrantRole(c, role, a)
    \/ \E c \in RoleCallers, role \in RoleArgs :
         \E a \in Grantees(role) : RevokeRole(c, role, a)
    \/ \E c \in RoleCallers, role \in RoleArgs : RenounceRole(c, role)
    \/ Pause
    \/ Unpause
    \/ Tick

Spec == Init /\ [][Next]_vars

(* ---------------------- RateLimiter state machine ---------------------- *)

\* A RateLimiter call: the limiter keeps what the call wrote, also when the
\* call returns an Err.
LimiterCall(op, arg, r) ==
    /\ limiter' = r.st
    /\ last' = Call(op, arg, r)
    /\ UNCHANGED <<vault, now, config_changes>>

\* A call of a setter of the RateLimiter, counted as a configuration change
\* when it changes a cap.
LimiterConfigCall(op, r) ==
    /\ config_changes < MaxConfigChanges
    /\ limiter' = r.st
    /\ last' = Call(op, 0, r)
    /\ config_changes' = IF r.st = limiter THEN config_changes ELSE config_changes + 1
    /\ UNCHANGED <<vault, now>>

CheckDepositLimit(u, a) ==
    LimiterCall("check_deposit_limit", 0, check_deposit_limit(limiter, u, a, now))

CheckWithdrawalLimit(a) ==
    LimiterCall("check_withdrawal_limit", 0, check_withdrawal_limit(limiter, a, now))

SetMaxPerTx(a) ==
    LimiterConfigCall("set_max_per_tx", set_max_per_tx(limiter, a))

SetMaxPerDay(a) ==
    LimiterConfigCall("set_max_per_day", set_max_per_day(limiter, a))

\* The block time moves forward between calls.
LimiterTick ==
    /\ \E t \in LimiterTimes :
         /\ t > now
         /\ now' = t
    /\ last' = Call("tick", 0, Ok(limiter, 0))
    /\ UNCHANGED <<vault, limiter, config_changes>>

LimiterNext ==
    \/ \E u \in Callers, a \in LimiterAmounts : CheckDepositLimit(u, a)
    \/ \E a \in LimiterAmounts : CheckWithdrawalLimit(a)
    \/ \E a \in PerTxCapArgs : SetMaxPerTx(a)
    \/ \E a \in PerDayCapArgs : SetMaxPerDay(a)
    \/ LimiterTick

LimiterSpec == Init /\ [][LimiterNext]_vars

TypeOK ==
    /\ vault.status \in {NOT_ENTERED, ENTERED}
    /\ vault.total_shares \in Nat
    /\ now \in TimePoints

(* ------------------------------ properties ----------------------------- *)

Requests(s) == s.withdrawal_requests

Issued(s) == DOMAIN s.withdrawal_requests

OpenRequestIds(s) == {id \in Issued(s) : ~Requests(s)[id].completed}

LockedShares(s) ==
    SumOver([id \in Issued(s) |-> Requests(s)[id].shares], OpenRequestIds(s))

SumBalances(s) == SumOver(s.user_shares, Addr)

\* The step is a call of entry point op.
IsCall(op) == last'.op = op

\* C1. Share conservation: in every reachable state total_shares equals
\* the sum of all spendable share balances (treasury included) plus the
\* shares of the uncompleted withdrawal requests.
C1_ShareConservation ==
    vault.total_shares = SumBalances(vault) + LockedShares(vault)

\* A state with an open request, fee shares held by the treasury and a
\* user balance.
C1_Witness ==
    /\ OpenRequestIds(vault) # {}
    /\ vault.user_shares[treasury] > 0
    /\ \E a \in Callers : vault.user_shares[a] > 0

\* C2. All-or-nothing: a step whose call fails leaves the storage (latch
\* included) as it was before the call.
C2_AllOrNothing ==
    [][last'.err # "none" => vault' = vault]_vars

\* A deposit has just failed on the dust floor, after the daily-limit step
\* and the fee sweep ran, and the latch is free.
C2_Witness ==
    /\ last.op = "deposit"
    /\ last.err = "InsufficientBalance"
    /\ vault.status = NOT_ENTERED
    /\ vault.total_shares > 0

\* C3. Idempotent completion: a completed request stays completed, and
\* complete_withdrawal on a completed request fails, whoever calls it, and
\* changes nothing.
C3_IdempotentCompletion ==
    [][/\ \A id \in Issued(vault) :
            Requests(vault)[id].completed =>
                id \in Issued(vault') /\ Requests(vault')[id].completed
       /\ \A c \in Callers, id \in RequestIds :
            (/\ IsCall("complete_withdrawal")
             /\ id \in Issued(vault)
             /\ Requests(vault)[id].completed
             /\ CompleteWithdrawal(c, id))
            => (last'.err # "none" /\ vault' = vault)]_vars

\* A second completion of a completed request has just been refused.
C3_Witness ==
    /\ last.op = "complete_withdrawal"
    /\ last.err = "InvalidRequest"
    /\ last.arg \in Issued(vault)
    /\ Requests(vault)[last.arg].completed

\* C4. Timelock: complete_withdrawal by the owner of an uncompleted request
\* fails with the timelock error and changes nothing before unlock_time,
\* and is not refused for the timelock from unlock_time on.
C4_Timelock ==
    [][\A c \in Callers, id \in RequestIds :
         (/\ IsCall("complete_withdrawal")
          /\ id \in Issued(vault)
          /\ Requests(vault)[id].user = c
          /\ ~Requests(vault)[id].completed
          /\ CompleteWithdrawal(c, id))
         => IF now < Requests(vault)[id].unlock_time
            THEN last'.err = "TimelockActive" /\ vault' = vault
            ELSE last'.err # "TimelockActive"]_vars

\* C5. Snapshot payout: a successful complete_withdrawal pays the stored
\* assets_value minus the performance fee computed on it, with no other
\* deduction, and the shares and assets_value stored at request time never
\* change afterwards.
C5_SnapshotPayout ==
    [][/\ \A c \in Callers, id \in RequestIds :
            (/\ IsCall("complete_withdrawal")
             /\ last'.err = "none"
             /\ CompleteWithdrawal(c, id))
            => last'.ret = Requests(vault)[id].assets_value
                 - calculate_performance_fee(vault, c, Requests(vault)[id].assets_value).fee
       /\ \A id \in Issued(vault) :
            /\ id \in Issued(vault')
            /\ Requests(vault')[id].assets_value = Requests(vault)[id].assets_value
            /\ Requests(vault')[id].shares = Requests(vault)[id].shares]_vars

\* A request has just been completed after deposits by its owner and a
\* management-fee mint.
C5_Witness ==
    /\ last.op = "complete_withdrawal"
    /\ last.err = "none"
    /\ Requests(vault)[last.arg].completed
    /\ vault.user_shares[treasury] > 0

\* C6. A successful request_withdrawal(shares) takes exactly shares from the
\* caller's balance, stores one new uncompleted request {caller, shares,
\* convert_to_assets(shares), now + timelock} under the id it returns, and
\* leaves total_shares, the pool, total assets, fees_collected, the other
\* balances and the other requests unchanged.
C6_RequestFrame ==
    [][\A c \in Callers : \A sh \in ShareArgs(vault, c) :
         (/\ IsCall("request_withdrawal")
          /\ last'.err = "none"
          /\ RequestWithdrawal(c, sh))
         => /\ vault'.user_shares =
                  [vault.user_shares EXCEPT ![c] = vault.user_shares[c] - sh]
            /\ last'.ret \notin Issued(vault)
            /\ Issued(vault') = Issued(vault) \cup {last'.ret}
            /\ \A id \in Issued(vault) : Requests(vault')[id] = Requests(vault)[id]
            /\ Requests(vault')[last'.ret].user = c
            /\ Requests(vault')[last'.ret].shares = sh
            /\ Requests(vault')[last'.ret].assets_value = convert_to_assets(vault, sh)
            /\ Requests(vault')[last'.ret].unlock_time = now + vault.withdrawal_timelock
            /\ ~Requests(vault')[last'.ret].completed
            /\ vault'.total_shares = vault.total_shares
            /\ vault'.instant_withdrawal_pool = vault.instant_withdrawal_pool
            /\ vault'.total_assets = vault.total_assets
            /\ total_assets_fn(vault') = total_assets_fn(vault)
            /\ vault'.fees_collected = vault.fees_collected]_vars

\* A request for part of a balance has just been stored.
C6_Witness ==
    /\ last.op = "request_withdrawal"
    /\ last.err = "none"
    /\ last.ret \in OpenRequestIds(vault)
    /\ vault.user_shares[Requests(vault)[last.ret].user] > 0

\* C7. Completion authorization: complete_withdrawal by anyone but the
\* request's owner fails with Unauthorized and changes nothing, whatever the
\* request's state, and on an id never issued it fails with the
\* request-not-found error.
C7_CompletionAuthorization ==
    [][\A c \in Callers, id \in RequestIds :
         (IsCall("complete_withdrawal") /\ CompleteWithdrawal(c, id))
         => IF id \in Issued(vault)
            THEN Requests(vault)[id].user # c
                   => (last'.err = "Unauthorized" /\ vault' = vault)
            ELSE last'.err \in {"InvalidRequest", "WithdrawalRequestNotFound"}
                   /\ vault' = vault]_vars

\* C8. While the vault is paused deposit fails with the paused error, and a
\* withdraw, request_withdrawal or complete_withdrawal that would succeed
\* unpaused succeeds.
C8_WithdrawalsWhilePaused ==
    [][vault.paused =>
         LET unpaused == [vault EXCEPT !.paused = FALSE] IN
         /\ \A c \in Callers, a \in Amounts :
              (IsCall("deposit") /\ Deposit(c, a)) => last'.err = "Paused"
         /\ \A c \in Callers : \A sh \in ShareArgs(vault, c) :
              (/\ IsCall("withdraw")
               /\ Withdraw(c, sh)
               /\ withdraw(unpaused, c, sh, now).err = "none")
              => last'.err = "none"
         /\ \A c \in Callers : \A sh \in ShareArgs(vault, c) :
              (/\ IsCall("request_withdrawal")
               /\ RequestWithdrawal(c, sh)
               /\ request_withdrawal(unpaused, c, sh, now).err = "none")
              => last'.err = "none"
         /\ \A c \in Callers, id \in RequestIds :
              (/\ IsCall("complete_withdrawal")
               /\ CompleteWithdrawal(c, id)
               /\ complete_withdrawal(unpaused, c, id, now).err = "none")
              => last'.err = "none"]_vars

\* The reached storage as a call arriving inside a guarded call finds it:
\* unpaused, with the latch held.
LatchHeld(s) == enter([s EXCEPT !.paused = FALSE])

\* C9. Re-entrancy: a call of a state-mutating entry point that finds the
\* latch held fails with the re-entrancy error and changes nothing.
C9_NestedCallsRejected ==
    LET s == LatchHeld(vault)
        Rejected(r) == r.err = "ReentrancyGuard" /\ r.st = s
    IN /\ \A c \in Callers :
            /\ \A a \in Amounts : Rejected(deposit(s, c, a, now))
            /\ \A sh \in ShareArgs(s, c) :
                 /\ Rejected(withdraw(s, c, sh, now))
                 /\ Rejected(request_withdrawal(s, c, sh, now))
                 /\ Rejected(instant_withdraw(s, c, sh, now))
            /\ \A id \in RequestIds : Rejected(complete_withdrawal(s, c, id, now))
            /\ Rejected(collect_management_fees(s, c, now))
       /\ \A c \in AdminCallers :
            /\ \A tl \in TimelockArgs : Rejected(set_withdrawal_timelock(s, c, tl))
            /\ \A bps \in PoolTargetArgs : Rejected(set_instant_pool_target(s, c, bps))
            /\ \A l \in DepositLimitArgs :
                 Rejected(update_deposit_limits(s, c, l[1], l[2]))

\* C10. In every reachable state total_assets() is at least the sum over
\* all accounts of convert_to_assets(share balance).
C10_AssetsCoverBalances ==
    total_assets_fn(vault) >=
        SumOver([a \in Addr |-> convert_to_assets(vault, vault.user_shares[a])], Addr)

\* Two users and the treasury hold shares.
C10_Witness ==
    /\ \A a \in Callers : vault.user_shares[a] > 0
    /\ vault.user_shares[treasury] > 0

\* The entry points that neither mint fee shares nor report a loss.
PriceKeepingOps ==
    {"deposit", "withdraw", "request_withdrawal", "complete_withdrawal",
     "instant_withdraw"}

\* C11. Monotonic share price: across a successful deposit, withdraw,
\* request_withdrawal, complete_withdrawal or instant_withdraw the value
\* get_share_price (convert_to_assets of one share) does not decrease.
C11_SharePriceMonotonic ==
    [][(last'.op \in PriceKeepingOps /\ last'.err = "none")
         => get_share_price(vault') >= get_share_price(vault)]_vars

\* A withdraw has just burned part of the supply after a top-up deposit.
C11_Witness ==
    /\ last.op = "withdraw"
    /\ last.err = "none"
    /\ vault.total_shares > 0
    /\ vault.total_assets > min_shares

\* C12. Round-trip: from total_shares = 0, a successful deposit of A
\* followed at the same block time by withdraw of all the shares it minted
\* pays out exactly A and leaves the caller with no shares.
C12_RoundTrip ==
    vault.total_shares = 0 =>
        \A c \in Callers, a \in Amounts :
            LET d == deposit(vault, c, a, now) IN
            d.err = "none" =>
                LET w == withdraw(d.st, c, d.ret, now) IN
                /\ w.err = "none"
                /\ w.ret = a
                /\ w.st.user_shares[c] = 0

\* The cost basis stored for user, 0 when no UserDeposit is stored.
StoredCostBasis(s, user) ==
    IF s.user_deposits[user].some THEN s.user_deposits[user].cost_basis ELSE 0

InstantFee(assets_value) ==
    (assets_value * instant_withdrawal_fee_bps) \div BPS_DENOMINATOR

\* C13. No-profit-no-fee: for an amount not above the caller's stored cost
\* basis calculate_performance_fee returns 0 and leaves fees_collected, and
\* a successful withdraw, instant_withdraw or complete_withdrawal whose
\* asset value is not above the caller's stored cost basis deducts no
\* performance fee and adds none to fees_collected.
C13_NoProfitNoFee ==
    /\ \A u \in Callers, amt \in FeeAmounts :
         amt <= StoredCostBasis(vault, u) =>
             LET r == calculate_performance_fee(vault, u, amt) IN
             r.fee = 0 /\ r.st.fees_collected = vault.fees_collected
    /\ \A c \in Callers : \A sh \in ShareArgs(vault, c) :
         LET av == convert_to_assets(vault, sh)
             w == withdraw(vault, c, sh, now)
             i == instant_withdraw(vault, c, sh, now)
         IN av <= StoredCostBasis(vault, c) =>
              /\ w.err = "none" =>
                    /\ w.ret = av
                    /\ w.st.fees_collected = vault.fees_collected
              /\ i.err = "none" =>
                    /\ i.ret = av - InstantFee(av)
                    /\ i.st.fees_collected = vault.fees_collected + InstantFee(av)
    /\ \A c \in Callers, id \in Issued(vault) :
         LET av == Requests(vault)[id].assets_value
             k == complete_withdrawal(vault, c, id, now)
         IN (av <= StoredCostBasis(vault, c) /\ k.err = "none") =>
              /\ k.ret = av
              /\ k.st.fees_collected = vault.fees_collected

\* An instant_withdraw of part of a balance has just succeeded for a caller
\* whose stored cost basis covers two deposits.
C13_Witness ==
    /\ last.op = "instant_withdraw"
    /\ last.err = "none"
    /\ \E c \in Callers :
         /\ vault.user_shares[c] = min_shares
         /\ StoredCostBasis(vault, c) = 2 * min_shares

\* floor(max(amount - stored cost basis, 0) * performance_fee_bps / 10000).
FeeOnProfit(s, user, amount) ==
    LET cb == StoredCostBasis(s, user)
        profit == IF amount > cb THEN amount - cb ELSE 0
    IN (profit * performance_fee_bps) \div BPS_DENOMINATOR

\* C14. The performance fee is charged on profit only:
\* calculate_performance_fee returns floor((amount - cost basis) *
\* performance_fee_bps / 10000) for an amount above the stored cost basis
\* and never more than max(amount - cost basis, 0), and that is the
\* performance fee a successful withdraw, instant_withdraw or
\* complete_withdrawal deducts from the asset value.
C14_FeeOnProfitOnly ==
    /\ \A u \in Callers, amt \in FeeAmounts :
         LET r == calculate_performance_fee(vault, u, amt)
             cb == StoredCostBasis(vault, u)
         IN /\ r.fee = FeeOnProfit(vault, u, amt)
            /\ r.fee <= (IF amt > cb THEN amt - cb ELSE 0)
    /\ \A c \in Callers : \A sh \in ShareArgs(vault, c) :
         LET av == convert_to_assets(vault, sh)
             w == withdraw(vault, c, sh, now)
             i == instant_withdraw(vault, c, sh, now)
         IN /\ w.err = "none" => av - w.ret = FeeOnProfit(vault, c, av)
            /\ i.err = "none" =>
                 av - InstantFee(av) - i.ret = FeeOnProfit(vault, c, av)
    /\ \A c \in Callers, id \in Issued(vault) :
         LET av == Requests(vault)[id].assets_value
             k == complete_withdrawal(vault, c, id, now)
         IN k.err = "none" => av - k.ret = FeeOnProfit(vault, c, av)

\* A time-locked withdrawal has just been paid while some user's stored
\* cost basis is one deposit, so that the largest amount tried is in profit
\* and is charged a tenth of the profit.
C14_Witness ==
    /\ last.op = "complete_withdrawal"
    /\ last.err = "none"
    /\ \E u \in Callers :
         /\ StoredCostBasis(vault, u) = min_shares
         /\ calculate_performance_fee(vault, u, 3 * min_shares + 5).fee = 200

\* C15. Daily cap: a deposit that would take the caller's deposits accepted
\* in the last 24 hours above max_deposit_per_day is refused.  Stated for
\* the first 24 hours of the vault's life, when every deposit recorded in
\* the caller's UserDeposit.total_deposited lies inside the window.
C15_DailyCap ==
    [][\A c \in Callers, a \in Amounts :
         (/\ IsCall("deposit")
          /\ now <= time_window
          /\ vault.user_deposits[c].some
          /\ vault.user_deposits[c].total_deposited + a > vault.max_deposit_per_day
          /\ Deposit(c, a))
         => last'.err # "none"]_vars

\* The earliest block time at which a deposit can succeed: the fee sweep
\* inside deposit reverts before last collection (0 at init) + 3600.
FirstDepositTime == FeeCollectionInterval

\* A block time inside the 24-hour window opened by a deposit at
\* FirstDepositTime, and the first block time after that window.
InsideWindow == FirstDepositTime + (time_window \div 2)

AfterWindow == FirstDepositTime + time_window + 1

\* C16. Daily window reset: the first deposit made once 24 hours have
\* elapsed since the start of the caller's window is checked against the
\* full daily cap, even if the caller deposited again inside the old window.
\* Stated for a caller whose window opened at FirstDepositTime (all the
\* caller's deposits so far were made then) and who deposits once more at
\* InsideWindow: at AfterWindow the counter restarts with the new amount and
\* max_deposit reports the whole cap.
C16_DailyWindowReset ==
    \A c \in Callers :
        LET d2 == deposit(vault, c, min_shares, InsideWindow)
            chk == check_daily_deposit_limit(d2.st, c, min_shares, AfterWindow)
        IN (/\ now <= InsideWindow
            /\ vault.user_deposits[c].some
            /\ vault.user_deposits[c].last_deposit_time = FirstDepositTime
            /\ d2.err = "none")
           => /\ chk.ok
              /\ chk.st.daily_deposits[c] = min_shares
              /\ max_deposit_fn(d2.st, c, AfterWindow) = vault.max_deposit_per_day

\* C17. A deposit by any caller, whatever roles the caller holds, with
\* 0 < amount <= max_deposit, inside the daily cap and minting at least
\* min_shares, made while the vault is not paused and the latch is free,
\* succeeds and returns the shares minted, however recently management fees
\* were collected.
C17_DepositNeedsNoRole ==
    \A c \in Callers, a \in Amounts :
        (/\ ~is_paused(vault)
         /\ ~is_entered(vault)
         /\ a > 0
         /\ a <= vault.max_deposit
         /\ check_daily_deposit_limit(vault, c, a, now).ok
         /\ convert_to_shares(vault, a) >= min_shares)
        => LET d == deposit(vault, c, a, now)
           IN /\ d.err = "none"
              /\ d.ret >= min_shares
              /\ d.st.user_shares[c] = vault.user_shares[c] + d.ret

\* C18. Dust floor: a deposit that passes the pause, latch, amount and daily
\* checks but whose convert_to_shares(amount) is below min_shares fails with
\* InsufficientBalance and mints nothing, and every successful deposit
\* mints at least min_shares.
C18_DustFloor ==
    \A c \in Callers, a \in Amounts :
        LET d == deposit(vault, c, a, now) IN
        /\ (/\ ~is_paused(vault)
            /\ ~is_entered(vault)
            /\ a > 0
            /\ a <= vault.max_deposit
            /\ check_daily_deposit_limit(vault, c, a, now).ok
            /\ convert_to_shares(vault, a) < min_shares)
           => (d.err = "InsufficientBalance" /\ d.st = vault)
        /\ d.err = "none" => d.ret >= min_shares

\* A block time late enough for a management fee to be due on the shares of
\* a single deposit.
FeeDueTime == 2 * MaxTime

\* C19. Fee sweep before mint: when a management fee of fee_shares > 0 is
\* due at deposit time, a successful deposit of amount mints the fee shares
\* to the treasury and mints the depositor
\* floor(amount * (total_shares + fee_shares) / total_assets) shares, where
\* total_assets is the assets deposited so far.
C19_SweepBeforeMint ==
    \A c \in Callers, a \in Amounts :
        LET fee_shares ==
                management_fee_shares(vault.total_shares,
                    FeeDueTime - vault.last_management_fee_collection)
            d == deposit(vault, c, a, FeeDueTime)
        IN (/\ vault.total_assets > 0
            /\ fee_shares > 0
            /\ d.err = "none")
           => /\ d.st.user_shares[treasury] =
                    vault.user_shares[treasury] + fee_shares
              /\ d.ret = (a * (vault.total_shares + fee_shares))
                             \div vault.total_assets

\* floor(total_shares * management_fee_bps * seconds_elapsed /
\* (31536000 * 10000)) in one division; management_fee_bps divides 10000,
\* so the quotient is taken over seconds_per_year * (10000 / fee bps).
FeeSharesDue(total_shares, seconds_elapsed) ==
    (total_shares * seconds_elapsed)
        \div (seconds_per_year * (BPS_DENOMINATOR \div management_fee_bps))

\* What every successful collect_management_fees step does to the ledger,
\* with the value the last-collection time must have afterwards.
CollectionEffect(last_collection_after(_)) ==
    \A c \in Callers :
        (/\ IsCall("collect_management_fees")
         /\ last'.err = "none"
         /\ CollectManagementFees(c))
        => LET fee_shares ==
                   FeeSharesDue(vault.total_shares,
                                now - vault.last_management_fee_collection)
           IN /\ vault'.total_shares = vault.total_shares + fee_shares
              /\ vault'.user_shares =
                    [vault.user_shares EXCEPT ![treasury] = @ + fee_shares]
              /\ vault'.last_management_fee_collection =
                    last_collection_after(fee_shares)
              /\ vault'.total_assets = vault.total_assets
              /\ vault'.instant_withdrawal_pool = vault.instant_withdrawal_pool

AlwaysNow(fee_shares) == now

NowIfMinted(fee_shares) ==
    IF fee_shares > 0 THEN now ELSE vault.last_management_fee_collection

\* C20 as stated: every successful collect_management_fees mints
\* floor(total_shares * management_fee_bps * seconds_elapsed /
\* (31536000 * 10000)) shares to the treasury and to total_shares, sets the
\* last-collection time to now and leaves total assets, the pool and the
\* other balances unchanged.
C20_CollectionAsStated ==
    [][CollectionEffect(AlwaysNow)]_vars

\* C20, amended: as above, but the last-collection time is set to now only
\* when fee shares are minted; a collection whose fee rounds to 0 succeeds
\* and leaves the last-collection time (and all storage) unchanged.
C20_Collection ==
    [][/\ CollectionEffect(NowIfMinted)
       /\ (IsCall("collect_management_fees") /\ last'.err = "none"
             /\ vault'.total_shares = vault.total_shares)
          => vault' = vault]_vars

\* A collection has just minted fee shares to the treasury.
C20_Witness ==
    /\ last.op = "collect_management_fees"
    /\ last.err = "none"
    /\ last.ret > 0
    /\ vault.user_shares[treasury] = last.ret
    /\ vault.last_management_fee_collection = now

\* The step credits fee shares to the treasury.
FeeMint == vault'.user_shares[treasury] > vault.user_shares[treasury]

\* C21 as stated: a direct collect_management_fees call by a Keeper made
\* less than 3600 seconds after the last collection (here: right after a
\* successful direct collection, at the same block time) fails with
\* RateLimitExceeded.
C21_RateLimitAsStated ==
    (/\ last.op = "collect_management_fees"
     /\ last.err = "none")
    => \A c \in Callers :
         has_keeper_role(vault, c)
         => collect_management_fees(vault, c, now).err = "RateLimitExceeded"

\* C21, amended: fee shares are minted at most once per hour.  Every mint
\* happens at least 3600 seconds after the stored last-collection time and
\* sets it to now, that time changes on no other step (so it is the time of
\* the last mint), and a direct collect_management_fees call by a Keeper
\* less than 3600 seconds after it fails with RateLimitExceeded and changes
\* nothing.  A collection whose fee rounds to 0 does not start the hour.
C21_RateLimit ==
    [][/\ FeeMint =>
            /\ now >= vault.last_management_fee_collection + FeeCollectionInterval
            /\ vault'.last_management_fee_collection = now
       /\ (vault'.last_management_fee_collection
             # vault.last_management_fee_collection) => FeeMint
       /\ \A c \in Callers :
            (/\ IsCall("collect_management_fees")
             /\ has_keeper_role(vault, c)
             /\ now < vault.last_management_fee_collection + FeeCollectionInterval
             /\ CollectManagementFees(c))
            => (last'.err = "RateLimitExceeded" /\ vault' = vault)]_vars

\* A direct collection has just been refused within the hour that follows
\* a fee mint.
C21_Witness ==
    /\ last.op = "collect_management_fees"
    /\ last.err = "RateLimitExceeded"
    /\ vault.user_shares[treasury] > 0
    /\ vault.last_management_fee_collection = now

\* The growth of the instant pool the replenishment policy prescribes for a
\* deposit of amount when the vault holds total_assets in all.
PoolTopUp(total_assets, pool, target_bps, amount) ==
    LET target_pool == (total_assets * target_bps) \div BPS_DENOMINATOR
    IN IF pool >= target_pool THEN 0 ELSE Min(target_pool - pool, amount)

\* C22. Pool replenishment: a successful deposit of amount grows the
\* instant pool by PoolTopUp (nothing when the pool is at its target,
\* otherwise the deficit capped at amount) and routes the rest to
\* strategies, where the target is instant_pool_target_bps of the vault's
\* total assets, counted either before or after the deposit is added.
C22_PoolReplenishment ==
    \A c \in Callers, a \in Amounts :
        LET r == deposit_to_deploy(vault, c, a, now)
            d == deposit(vault, c, a, now)
            grown == d.st.instant_withdrawal_pool - vault.instant_withdrawal_pool
        IN d.err = "none" =>
             /\ grown + r.deploy = a
             /\ \E ta \in {vault.total_assets, vault.total_assets + a} :
                  grown = PoolTopUp(ta, vault.instant_withdrawal_pool,
                                    vault.instant_pool_target_bps, a)

\* C23. A successful deposit of D into a vault whose instant pool and total
\* assets are both zero keeps floor(D * instant_pool_target_bps / 10000) in
\* the instant pool and deploys the remainder.
C23_FirstDepositFillsPool ==
    \A c \in Callers, a \in Amounts :
        LET r == deposit_to_deploy(vault, c, a, now)
            d == deposit(vault, c, a, now)
            kept == (a * vault.instant_pool_target_bps) \div BPS_DENOMINATOR
        IN (/\ vault.instant_withdrawal_pool = 0
            /\ vault.total_assets = 0
            /\ d.err = "none")
           => /\ d.st.instant_withdrawal_pool = kept
              /\ r.deploy = a - kept

\* The storage s with the instant pool holding pool.
WithPool(s, pool) == [s EXCEPT !.instant_withdrawal_pool = pool]

\* C24. instant_withdraw(shares), called by a holder of at least shares > 0
\* while the vault is not paused and the latch is free, fails with
\* InsufficientLiquidity and changes nothing whenever
\* convert_to_assets(shares) exceeds the instant pool, and otherwise
\* succeeds and takes exactly that asset value out of the instant pool.
\* Checked on every reached storage and on the same storage with the pool
\* at each of PoolLevels.  total_assets() is the instant pool alone, so for
\* shares within the caller's balance convert_to_assets(shares) is at most
\* the pool: only the success branch is ever taken, and the refusal stays
\* unexercised.
C24_InstantLiquidity ==
    \A pool \in PoolLevels \cup {vault.instant_withdrawal_pool} :
      \A c \in Callers :
        LET s == WithPool(vault, pool) IN
        \A sh \in ShareArgs(vault, c) :
          LET av == convert_to_assets(s, sh)
              i == instant_withdraw(s, c, sh, now)
          IN (/\ ~is_paused(s)
              /\ ~is_entered(s)
              /\ sh > 0
              /\ sh <= s.user_shares[c])
             => IF av > pool
                THEN i.err = "InsufficientLiquidity" /\ i.st = s
                ELSE /\ i.err = "none"
                     /\ i.st.instant_withdrawal_pool = pool - av

\* An instant_withdraw has just succeeded and left shares outstanding, so
\* that with a funded pool a further instant_withdraw has a positive value.
C24_Witness ==
    /\ last.op = "instant_withdraw"
    /\ last.err = "none"
    /\ \E c \in Callers :
         /\ vault.user_shares[c] > 0
         /\ convert_to_assets(WithPool(vault, 3 * min_shares), vault.user_shares[c]) > 0


\* C25. A successful instant_withdraw(shares) pays exactly
\* assets_value - floor(assets_value * instant_withdrawal_fee_bps / 10000)
\* - performance fee of assets_value, where assets_value is
\* convert_to_assets(shares) before the burn, and takes shares off the
\* caller's balance and off total_shares.  Checked on every reached storage
\* and on the same storage with the pool at each of PoolLevels.
C25_InstantPayout ==
    \A pool \in PoolLevels \cup {vault.instant_withdrawal_pool} :
      \A c \in Callers :
        LET s == WithPool(vault, pool) IN
        \A sh \in ShareArgs(vault, c) :
          LET av == convert_to_assets(s, sh)
              i == instant_withdraw(s, c, sh, now)
          IN i.err = "none"
             => /\ i.ret = av - InstantFee(av) - FeeOnProfit(s, c, av)
                /\ i.st.user_shares[c] = s.user_shares[c] - sh
                /\ i.st.total_shares = s.total_shares - sh
                /\ \A u \in Addr \ {c} : i.st.user_shares[u] = s.user_shares[u]

\* An instant_withdraw has just succeeded, and on the reached storage with
\* a funded pool some holder's instant_withdraw pays both kinds of fee.
C25_Witness ==
    /\ last.op = "instant_withdraw"
    /\ last.err = "none"
    /\ \E c \in Callers, pool \in PoolLevels :
         LET s == WithPool(vault, pool)
             sh == vault.user_shares[c]
             av == convert_to_assets(s, sh)
         IN /\ sh > 0
            /\ instant_withdraw(s, c, sh, now).err = "none"
            /\ InstantFee(av) > 0
            /\ FeeOnProfit(s, c, av) > 0


\* C26. withdraw(shares), called while the latch is free, fails with
\* InsufficientBalance and changes nothing when shares is zero or exceeds
\* the caller's balance; otherwise it succeeds, takes shares off the
\* caller's balance and off total_shares, takes min(assets_value, pool) out
\* of the instant pool and pays assets_value minus the performance fee of
\* assets_value, where assets_value is convert_to_assets(shares) before the
\* burn.  Checked on every reached storage and on the same storage with the
\* pool at each of PoolLevels.
C26_Withdraw ==
    \A pool \in PoolLevels \cup {vault.instant_withdrawal_pool} :
      \A c \in Callers :
        LET s == WithPool(vault, pool) IN
        \A sh \in ShareArgs(vault, c) :
          LET av == convert_to_assets(s, sh)
              w == withdraw(s, c, sh, now)
          IN ~is_entered(s)
             => IF sh = 0 \/ sh > s.user_shares[c]
                THEN w.err = "InsufficientBalance" /\ w.st = s
                ELSE /\ w.err = "none"
                     /\ w.st.user_shares[c] = s.user_shares[c] - sh
                     /\ w.st.total_shares = s.total_shares - sh
                     /\ w.st.instant_withdrawal_pool = pool - Min(av, pool)
                     /\ w.ret = av - FeeOnProfit(s, c, av)


\* C27. In every reachable state, a user whose share balance is zero
\* has no UserDeposit record, whichever of withdraw, instant_withdraw and
\* request_withdrawal brought the balance to zero.
C27_NoDepositRecordAtZero ==
    \A u \in Callers :
        vault.user_shares[u] = 0 => ~vault.user_deposits[u].some


\* The fields of a stored request that are written once, when it is issued.
IssuedFields(request) ==
    [user |-> request.user,
     shares |-> request.shares,
     assets_value |-> request.assets_value,
     request_time |-> request.request_time,
     unlock_time |-> request.unlock_time]

\* C28. Withdrawal request ids are unique and strictly increasing in issue
\* order: the ids issued so far are exactly 0 .. next_withdrawal_id - 1,
\* a later id was never requested earlier than a smaller one, only a
\* successful request_withdrawal issues an id, it returns the current
\* next_withdrawal_id and advances it by one, a failed call and every other
\* operation leave next_withdrawal_id and the set of ids alone, and the
\* issue-time fields of a stored request are never written again.
C28_RequestIds ==
    /\ [](/\ Issued(vault) = 0 .. (vault.next_withdrawal_id - 1)
          /\ \A i, j \in Issued(vault) :
               i < j => Requests(vault)[i].request_time <= Requests(vault)[j].request_time)
    /\ [][/\ \A id \in Issued(vault) :
               /\ id \in Issued(vault')
               /\ IssuedFields(Requests(vault')[id]) = IssuedFields(Requests(vault)[id])
          /\ (\/ vault'.next_withdrawal_id # vault.next_withdrawal_id
              \/ Issued(vault') # Issued(vault))
             => /\ last'.op = "request_withdrawal"
                /\ last'.err = "none"
                /\ last'.ret = vault.next_withdrawal_id
                /\ last'.ret \notin Issued(vault)
                /\ vault'.next_withdrawal_id = vault.next_withdrawal_id + 1
                /\ Issued(vault') = Issued(vault) \cup {last'.ret}
          /\ (last'.op = "request_withdrawal" /\ last'.err # "none")
             => /\ vault'.next_withdrawal_id = vault.next_withdrawal_id
                /\ Requests(vault') = Requests(vault)]_vars

\* A second request has just been issued, by another user than the first,
\* and it got the id after the first one.
C28_Witness ==
    /\ last.op = "request_withdrawal"
    /\ last.err = "none"
    /\ last.ret = 1
    /\ vault.next_withdrawal_id = 2
    /\ Issued(vault) = {0, 1}
    /\ Requests(vault)[0].user # Requests(vault)[1].user


\* The caller's stored total_deposited, 0 when there is no UserDeposit.
StoredTotalDeposited(s, user) ==
    IF s.user_deposits[user].some THEN s.user_deposits[user].total_deposited ELSE 0

\* C29. The cost basis is cumulative: a successful deposit of amount a
\* raises the caller's cost_basis and total_deposited by exactly a and
\* leaves the other users' records alone, and a successful withdraw,
\* instant_withdraw or request_withdrawal of part of the caller's balance,
\* and any complete_withdrawal, leave every cost_basis as it was.
C29_CumulativeCostBasis ==
    [](\A c \in Callers :
            /\ \A a \in Amounts :
                 LET d == deposit(vault, c, a, now) IN
                 d.err = "none"
                 => /\ StoredCostBasis(d.st, c) = StoredCostBasis(vault, c) + a
                    /\ StoredTotalDeposited(d.st, c) = StoredTotalDeposited(vault, c) + a
                    /\ \A u \in Addr \ {c} : d.st.user_deposits[u] = vault.user_deposits[u]
            /\ \A sh \in ShareArgs(vault, c) :
                 (0 < sh /\ sh < vault.user_shares[c])
                 => \A pool \in PoolLevels \cup {vault.instant_withdrawal_pool} :
                      LET s == WithPool(vault, pool)
                          w == withdraw(s, c, sh, now)
                          i == instant_withdraw(s, c, sh, now)
                          r == request_withdrawal(s, c, sh, now)
                      IN /\ w.err = "none" => w.st.user_deposits = s.user_deposits
                         /\ i.err = "none" => i.st.user_deposits = s.user_deposits
                         /\ r.err = "none" => r.st.user_deposits = s.user_deposits
            /\ \A id \in Issued(vault) :
                 \A t \in {now, Requests(vault)[id].unlock_time} :
                   complete_withdrawal(vault, c, id, t).st.user_deposits = vault.user_deposits)

\* The caller's second deposit has just succeeded: the stored cost basis is
\* the sum of both, and part of the balance can be withdrawn by every path.
C29_Witness ==
    /\ last.op = "deposit"
    /\ last.err = "none"
    /\ \E c \in Callers :
         /\ StoredCostBasis(vault, c) = 2 * min_shares
         /\ vault.user_shares[c] = 2 * min_shares
         /\ withdraw(vault, c, min_shares, now).err = "none"
         /\ instant_withdraw(vault, c, min_shares, now).err = "none"
         /\ request_withdrawal(vault, c, min_shares, now).err = "none"


\* C30. Share pricing: convert_to_shares(a) is a when
\* total_shares is 0 and floor(a * total_shares / total assets) otherwise,
\* and convert_to_assets(sh) is 0 when total_shares is 0 and
\* floor(sh * total assets / total_shares) otherwise, where total assets is
\* the instant pool plus the value deployed to strategies; the first
\* deposit of min_shares mints min_shares shares.  The total is read from
\* the total_assets cell (line 60), which deposit raises by every amount it
\* keeps in the pool or hands to the staking and strategy contracts
\* (lines 235-236) and from which no operation takes anything back.
C30_SharePricing ==
    /\ \A a \in FeeAmounts :
         convert_to_shares(vault, a) =
             IF vault.total_shares = 0 \/ vault.total_assets = 0 THEN a
             ELSE (a * vault.total_shares) \div vault.total_assets
    /\ \A sh \in FeeAmounts :
         convert_to_assets(vault, sh) =
             IF vault.total_shares = 0 THEN 0
             ELSE (sh * vault.total_assets) \div vault.total_shares
    /\ \A c \in Callers :
         LET d == deposit(vault, c, min_shares, now) IN
         (vault.total_shares = 0 /\ d.err = "none") => d.ret = min_shares


\* Amounts put through both conversions: one that rounds to nothing, one
\* just above a deposit, one above everything the vault holds.
RoundTripAmounts == {1, min_shares + 1, 3 * min_shares + 5}

\* C31. Rounding favours the pool: on every storage with total_shares > 0
\* and total_assets() > 0, convert_to_assets(convert_to_shares(a)) <= a and
\* convert_to_shares(convert_to_assets(sh)) <= sh, and a deposit followed
\* at once by a withdraw of the shares it minted pays no more than was
\* deposited (for a deposit of min_shares, the amount within the caps).
\* Checked on every reached storage and, where shares are outstanding, on
\* the same storage with the pool at each of PoolLevels.
C31_RoundingFavoursPool ==
    [](\A pool \in PoolLevels \cup {vault.instant_withdrawal_pool} :
            LET s == WithPool(vault, pool) IN
            /\ (s.total_shares > 0 /\ total_assets_fn(s) > 0)
               => \A x \in RoundTripAmounts :
                    /\ convert_to_assets(s, convert_to_shares(s, x)) <= x
                    /\ convert_to_shares(s, convert_to_assets(s, x)) <= x
            /\ (pool = vault.instant_withdrawal_pool
                 \/ (s.total_shares > 0 /\ total_assets_fn(s) > 0))
               => \A c \in Callers :
                    (has_keeper_role(s, c) /\ ~is_paused(s) /\ ~is_entered(s))
                    => \A d \in {deposit(s, c, min_shares, now)} :
                         d.err = "none"
                         => \A w \in {withdraw(d.st, c, d.ret, now)} :
                              w.err = "none" => w.ret <= min_shares)

\* A deposit has just succeeded and, with the pool funded, both round
\* trips lose to rounding.
C31_Witness ==
    /\ last.op = "deposit"
    /\ last.err = "none"
    /\ vault.total_shares > 0
    /\ \E pool \in PoolLevels, x \in RoundTripAmounts :
         LET s == WithPool(vault, pool) IN
         /\ total_assets_fn(s) > 0
         /\ convert_to_shares(s, x) > 0
         /\ convert_to_assets(s, convert_to_shares(s, x)) < x
         /\ \E y \in RoundTripAmounts :
              /\ convert_to_assets(s, y) > 0
              /\ convert_to_shares(s, convert_to_assets(s, y)) < y


\* C32. max_deposit(user) is the full daily cap for a user with no
\* UserDeposit or whose 24 hours have elapsed, and otherwise the cap minus
\* the user's daily counter (0 when exhausted); and it agrees with deposit:
\* the daily check accepts an amount exactly when it does not exceed
\* max_deposit(user), and a deposit of more than max_deposit(user) is
\* refused.
C32_MaxDepositAgrees ==
    \A c \in Callers :
        LET data == vault.user_deposits[c]
            cap == vault.max_deposit_per_day
            used == vault.daily_deposits[c]
        IN /\ max_deposit_fn(vault, c, now) =
                  IF ~data.some \/ now > data.last_deposit_time + time_window
                  THEN cap
                  ELSE IF used >= cap THEN 0 ELSE cap - used
           /\ \A a \in Amounts :
                /\ check_daily_deposit_limit(vault, c, a, now).ok
                       <=> a <= max_deposit_fn(vault, c, now)
                /\ a > max_deposit_fn(vault, c, now)
                       => deposit(vault, c, a, now).err # "none"


\* C33. The performance fee of a completion does not depend on what the
\* owner did with the remaining shares: when a holder requests withdrawal
\* of part of the balance, exits all the remaining shares by withdraw or by
\* instant_withdraw and completes the request once it is unlocked, the
\* completion pays what it pays without the exit, namely the snapshotted
\* assets_value minus the performance fee on the cost basis stored when the
\* request was made.  Checked from every reached storage; there every
\* snapshot is 0, since no entry point funds the instant pool, and so is the
\* fee on either branch of calculate_performance_fee.
C33_CompletionFeeAfterExit ==
    \A c \in Callers :
      \A part \in ShareArgs(vault, c) :
        (0 < part /\ part < vault.user_shares[c]
           /\ ~is_paused(vault) /\ ~is_entered(vault))
        => \A r \in {request_withdrawal(vault, c, part, now)} :
             LET rest == vault.user_shares[c] - part
                 request == Requests(r.st)[r.ret]
                 k0 == complete_withdrawal(r.st, c, r.ret, request.unlock_time)
             IN \A x \in {withdraw(r.st, c, rest, now),
                          instant_withdraw(r.st, c, rest, now)} :
                  \A k \in {complete_withdrawal(x.st, c, r.ret, request.unlock_time)} :
                    (r.err = "none" /\ x.err = "none")
                    => /\ k.err = k0.err
                       /\ k.err = "none"
                            => /\ k.ret = k0.ret
                               /\ k.ret = request.assets_value
                                          - FeeOnProfit(vault, c, request.assets_value)

\* A request has just been completed by an owner who, after making it, took
\* out all the remaining shares: the owner holds no shares and has no
\* UserDeposit record.
C33_Witness ==
    /\ last.op = "complete_withdrawal"
    /\ last.err = "none"
    /\ last.arg \in Issued(vault)
    /\ LET owner == Requests(vault)[last.arg].user
       IN /\ vault.user_shares[owner] = 0
          /\ ~vault.user_deposits[owner].some


\* C34. Fee accounting: a successful withdraw, instant_withdraw or
\* complete_withdrawal raises fees_collected by exactly the fee it deducted
\* from the payout, that is, the gross asset value minus the amount paid.
\* Checked from every reached storage; there every gross value and every
\* fee is 0, since no entry point funds the instant pool, so the performance
\* fee that instant_withdraw adds to fees_collected a second time is 0.
C34_FeeAccounting ==
    \A c \in Callers :
      /\ \A sh \in ShareArgs(vault, c) :
           LET gross == convert_to_assets(vault, sh) IN
           /\ \A w \in {withdraw(vault, c, sh, now)} :
                w.err = "none"
                => w.st.fees_collected = vault.fees_collected + (gross - w.ret)
           /\ \A i \in {instant_withdraw(vault, c, sh, now)} :
                i.err = "none"
                => i.st.fees_collected = vault.fees_collected + (gross - i.ret)
      /\ \A id \in Issued(vault) :
           \A k \in {complete_withdrawal(vault, c, id, Requests(vault)[id].unlock_time)} :
             k.err = "none"
             => k.st.fees_collected =
                    vault.fees_collected + (Requests(vault)[id].assets_value - k.ret)

\* An instant_withdraw has just succeeded in a run in which a request was
\* completed before it.
C34_Witness ==
    /\ last.op = "instant_withdraw"
    /\ last.err = "none"
    /\ \E id \in Issued(vault) : Requests(vault)[id].completed


\* The snapshotted asset values of the uncompleted requests, added up.
OpenSnapshots(s) ==
    SumOver([id \in Issued(s) |-> Requests(s)[id].assets_value], OpenRequestIds(s))

\* C35. Solvency with open requests: in every reachable state the
\* snapshotted assets_value of all uncompleted withdrawal requests plus the
\* sum over all accounts of convert_to_assets(share balance) is at most
\* total_assets(), also after management-fee mints and other users'
\* withdrawals between a request and its completion.
C35_SolvencyWithRequests ==
    OpenSnapshots(vault)
      + SumOver([a \in Addr |-> convert_to_assets(vault, vault.user_shares[a])], Addr)
      <= total_assets_fn(vault)

\* A management fee has just been minted while a request is open and a
\* user still holds spendable shares.
C35_Witness ==
    /\ last.op = "collect_management_fees"
    /\ last.err = "none"
    /\ last.ret > 0
    /\ OpenRequestIds(vault) # {}
    /\ vault.user_shares[treasury] > 0
    /\ \E c \in Callers : vault.user_shares[c] > 0


\* C36. No double spend of shares: a successful withdraw, instant_withdraw
\* or request_withdrawal of sh shares takes exactly sh off the caller's
\* balance and never more than the balance holds, so shares locked in a
\* request cannot be withdrawn, instantly withdrawn or requested again; a
\* successful complete_withdrawal takes the request's shares off
\* total_shares once and a second completion of the same request fails;
\* total_shares always covers the spendable balances and the locked
\* shares, and no call ends in an arithmetic underflow.
C36_NoDoubleSpend ==
    /\ last.err # "Panic"
    /\ \A a \in Addr : vault.user_shares[a] >= 0
    /\ vault.total_shares >= SumBalances(vault) + LockedShares(vault)
    /\ \A c \in Callers :
         /\ \A sh \in ShareArgs(vault, c) :
              \A x \in {withdraw(vault, c, sh, now),
                        instant_withdraw(vault, c, sh, now),
                        request_withdrawal(vault, c, sh, now)} :
                /\ x.err # "Panic"
                /\ x.err = "none"
                   => /\ 0 < sh /\ sh <= vault.user_shares[c]
                      /\ x.st.user_shares[c] = vault.user_shares[c] - sh
         /\ \A id \in Issued(vault) :
              LET request == Requests(vault)[id] IN
              \A k \in {complete_withdrawal(vault, c, id, request.unlock_time)} :
                /\ k.err # "Panic"
                /\ k.err = "none"
                   => /\ ~request.completed
                      /\ k.st.total_shares = vault.total_shares - request.shares
                      /\ k.st.user_shares = vault.user_shares
                      /\ complete_withdrawal(k.st, c, id, request.unlock_time).err
                             = "InvalidRequest"

\* A withdraw has just been refused for lack of balance while the shares of
\* a user with no spendable balance are locked in an open request, and
\* another request has been completed.
C36_Witness ==
    /\ last.op = "withdraw"
    /\ last.err = "InsufficientBalance"
    /\ \E id \in OpenRequestIds(vault) :
         vault.user_shares[Requests(vault)[id].user] = 0
    /\ \E id \in Issued(vault) : Requests(vault)[id].completed


\* C37. Funds cannot be trapped in a request: while the vault is not
\* paused, complete_withdrawal called by the owner of an
\* uncompleted request at or after its unlock_time succeeds, whatever
\* deposits, withdrawals, fee mints and timelock changes happened since the
\* request; and a request snapshotted while the pool was funded is
\* completed whatever the pool holds at completion.
C37_RequestsCompletable ==
    ~is_paused(vault)
    => /\ \A id \in OpenRequestIds(vault) :
            LET request == Requests(vault)[id] IN
            \A t \in {request.unlock_time, request.unlock_time + 1, 2 * MaxTime} :
              complete_withdrawal(vault, request.user, id, t).err = "none"
       /\ \A c \in Callers :
            vault.user_shares[c] > 0
            => \A r \in {request_withdrawal(WithPool(vault, 3 * min_shares), c,
                                            vault.user_shares[c], now)} :
                 /\ r.err = "none"
                 /\ \A pool \in PoolLevels :
                      complete_withdrawal(WithPool(r.st, pool), c, r.ret,
                                          Requests(r.st)[r.ret].unlock_time).err = "none"

\* A request has just been completed after the timelock parameter was
\* changed, and another unlocked request is still open.
C37_Witness ==
    /\ last.op = "complete_withdrawal"
    /\ last.err = "none"
    /\ vault.withdrawal_timelock # InitWithdrawalTimelock
    /\ ~is_paused(vault)
    /\ \E id \in OpenRequestIds(vault) : now >= Requests(vault)[id].unlock_time


\* C38. The re-entrancy latch is never left held: after every call the
\* latch is NOT_ENTERED, and every call of a guarded entry point made then,
\* whether it returns or aborts on any of its error paths, ends with the
\* latch NOT_ENTERED.
C38_LatchReleased ==
    [](/\ ~is_entered(vault)
       /\ \A c \in Callers :
            /\ \A a \in Amounts : ~is_entered(deposit(vault, c, a, now).st)
            /\ \A sh \in ShareArgs(vault, c) :
                 /\ ~is_entered(withdraw(vault, c, sh, now).st)
                 /\ ~is_entered(instant_withdraw(vault, c, sh, now).st)
                 /\ ~is_entered(request_withdrawal(vault, c, sh, now).st)
            /\ \A id \in RequestIds :
                 ~is_entered(complete_withdrawal(vault, c, id, now).st))

\* A deposit has just aborted on an error path that reverts without
\* calling exit, and the latch is free.
C38_Witness ==
    /\ last.op = "deposit"
    /\ last.err \in {"ZeroAmount", "RateLimitExceeded", "MissingRole", "InsufficientBalance"}
    /\ ~is_entered(vault)
    /\ vault.total_shares > 0


\* What a call made by caller may not touch: between storages s and s2
\* every other account keeps its UserDeposit, daily counter and share
\* balance, and every request of another user is unchanged.  With
\* fee_mint the treasury's share balance may have grown.
OthersUntouched(s, s2, caller, fee_mint) ==
    /\ \A u \in Addr \ {caller} :
         /\ s2.user_deposits[u] = s.user_deposits[u]
         /\ s2.daily_deposits[u] = s.daily_deposits[u]
         /\ IF fee_mint /\ u = treasury
            THEN s2.user_shares[u] >= s.user_shares[u]
            ELSE s2.user_shares[u] = s.user_shares[u]
    /\ \A id \in Issued(s) :
         Requests(s)[id].user # caller
         => id \in Issued(s2) /\ Requests(s2)[id] = Requests(s)[id]
    /\ \A id \in Issued(s2) \ Issued(s) : Requests(s2)[id].user = caller

\* C39. Isolation between users: a call by a user to deposit, withdraw,
\* request_withdrawal, complete_withdrawal or instant_withdraw never changes
\* another account's share balance, UserDeposit, daily deposit counter or
\* withdrawal requests, except that the treasury's share balance may grow
\* by the management fee swept inside deposit.
C39_Isolation ==
    [](\A c \in Callers :
          /\ \A a \in Amounts :
               OthersUntouched(vault, deposit(vault, c, a, now).st, c, TRUE)
          /\ \A sh \in ShareArgs(vault, c) :
               /\ OthersUntouched(vault, withdraw(vault, c, sh, now).st, c, FALSE)
               /\ OthersUntouched(vault, instant_withdraw(vault, c, sh, now).st, c, FALSE)
               /\ OthersUntouched(vault, request_withdrawal(vault, c, sh, now).st, c, FALSE)
          /\ \A id \in Issued(vault) :
               \A t \in {now, Requests(vault)[id].unlock_time} :
                 OthersUntouched(vault, complete_withdrawal(vault, c, id, t).st, c, FALSE))

\* A user's attempt to complete another user's request has just been
\* refused, in a vault where a fee sweep has minted shares to the treasury.
C39_Witness ==
    /\ last.op = "complete_withdrawal"
    /\ last.err = "Unauthorized"
    /\ vault.user_shares[treasury] > 0
    /\ \A c \in Callers : vault.user_deposits[c].some


\* The per-user day totals and the global hour totals of l2 are none above
\* those of l.
NothingAdded(l, l2) ==
    /\ l2.per_user_limits = l.per_user_limits
    /\ l2.global_hourly_deposits <= l.global_hourly_deposits
    /\ l2.global_hourly_withdrawals <= l.global_hourly_withdrawals

\* C40. RateLimiter invariants: after any sequence of check_deposit_limit
\* and check_withdrawal_limit calls at non-decreasing times, every user's
\* current_day_total is at most that user's max_per_day,
\* global_hourly_deposits is at most max_global_deposits_per_hour and
\* global_hourly_withdrawals is at most max_global_withdrawals_per_hour;
\* and a call that returns RateLimitExceeded, made now or at any later
\* time, adds nothing to the per-user or global totals.
C40_LimiterTotals ==
    /\ \A u \in Callers :
         limiter.per_user_limits[u].some
         => limiter.per_user_limits[u].current_day_total
                <= limiter.per_user_limits[u].max_per_day
    /\ limiter.global_hourly_deposits <= limiter.max_global_deposits_per_hour
    /\ limiter.global_hourly_withdrawals <= limiter.max_global_withdrawals_per_hour
    /\ \A t \in {x \in LimiterTimes : x >= now}, a \in LimiterAmounts :
         /\ \A u \in Callers :
              \A r \in {check_deposit_limit(limiter, u, a, t)} :
                r.err = "RateLimitExceeded" => NothingAdded(limiter, r.st)
         /\ \A r \in {check_withdrawal_limit(limiter, a, t)} :
              r.err = "RateLimitExceeded" => NothingAdded(limiter, r.st)

\* A check_deposit_limit has just been refused with one user at the daily
\* limit and the global hourly deposits at their limit.
C40_Witness ==
    /\ last.op = "check_deposit_limit"
    /\ last.err = "RateLimitExceeded"
    /\ limiter.global_hourly_deposits = limiter.max_global_deposits_per_hour
    /\ limiter.global_hourly_withdrawals = limiter.max_global_withdrawals_per_hour
    /\ \E u \in Callers :
         /\ limiter.per_user_limits[u].some
         /\ limiter.per_user_limits[u].current_day_total
                = limiter.per_user_limits[u].max_per_day

====
